---- MODULE Spec2Model ----
(***************************************************************************)
(* Diagnostic Session Orchestrator of health-ui/backend/app/api/           *)
(* workflow_api.py: the websocket handler workflow_ws, its helpers and the *)
(* process-wide registry ISSUE_THREAD_MAP.                                 *)
(*                                                                         *)
(* Every connection is one asyncio task.  The code between two awaits is   *)
(* atomic, so an action is the code that runs from one point where the     *)
(* task can be overtaken by another task to the next one.                  *)
(***************************************************************************)
EXTENDS Integers, Sequences, FiniteSets, TLC

(* ---------------------------------------------------------------- bounds *)
NumConns == 2
NumKeys == 2
MaxAppend == 50
MaxMessages == 60
MaxObjects == 2

(* ------------------------------------------------------ program constants *)
max_steps == 12
max_history == 50

Conns == 1..NumConns
Keys == 1..NumKeys
MaxThreads == 2 * NumConns
ThreadIds == 1..MaxThreads
None == 0

(* Non-user messages one engine run leaves in the thread. *)
Appends == {1, MaxAppend}

(* What AgentState.model_validate_json makes of a message text: the         *)
(* next_action of a valid Decision, or "invalid".                           *)
NextActions == {"continue", "await_user_approval", "handoff_to_solution_agent"}

(* a valid Decision with next_action continue whose action names no tool    *)
(* that create_mock_tools has registered                                    *)
unknown_action == "continue, action unknown"

Texts == NextActions \cup {"invalid", unknown_action}

(* Inbound messages after the start message.  "malformed" is a frame that  *)
(* is not JSON (receive_json raises ValueError), "disconnect" the closing  *)
(* of the transport (receive_json raises WebSocketDisconnect).             *)
Decisions == {"approve", "deny", "handoff", "bogus", "YES", "y", "no", "none"}
JsonMsgs == [frame : {"json"}, type : {"intervene", "resume"}, decision : Decisions]
Frames == [frame : {"malformed", "disconnect"}, type : {"none"}, decision : {"none"}]
Inbound == JsonMsgs \cup Frames

(* current_input of the turn loop *)
start_input == "Investigate the issue"
resume_input == "Resume investigation based on the history above."
continue_input == "Continue."
handoff_denied_input == "Handoff DENIED. Continue diagnosis."
approved_input == "Action APPROVED. Proceed."
denied_input == "Action DENIED."
manual_handoff_input == "Manual Handoff requested."

(* A local variable holds Dead where the code cannot read it before it    *)
(* assigns it again: current_input from the engine call that consumed it   *)
(* to the next assignment, state outside the iteration that parsed it,     *)
(* and every local of workflow_ws after the handler has returned.          *)
Dead == "-"

VARIABLES
    ISSUE_THREAD_MAP,  \* issue key -> [diag_thread_id, sol_thread_id]
    threads,           \* thread store: id -> [n: non-user messages, last: text of the newest]
    next_thread,       \* next thread reference the store hands out
    pc,                \* position of each connection's task
    issue_id,          \* key of the connection's issue
    existing_diag_id,  \* mapping.get("diag_thread_id") read at the start
    diag_thread,       \* service_thread_id of the connection's diag_thread
    current_input,
    step_count,
    state,             \* next_action of the turn's parsed Decision ("invalid": None)
    out,               \* events the connection's last step sent, in order
    connected,         \* the connection's transport is open
    \* one call of _flush_diag_stream, character by character
    stream,            \* the text the engine streams in the turn
    fed,               \* characters of stream received so far
    buffer,
    emitted,           \* diagnostic events sent so far, in order
    parsed,            \* the turn loop's state after the stream
    \* the start message's issue
    payload,           \* init_msg["issue"]
    issue,             \* HealthIssue(**init_msg["issue"])
    lookup,            \* the issue_id the registry is addressed with
    \* the collectors of skills/k8s_diag.py
    kube,              \* what is installed, configured and reachable
    v1_api,            \* the module's _v1_api
    observation        \* what the last collector call gave its caller

sessionVars == <<ISSUE_THREAD_MAP, threads, next_thread, pc, issue_id, existing_diag_id,
                 diag_thread, current_input, step_count, state, out, connected>>
streamVars == <<stream, fed, buffer, emitted, parsed>>
issueVars == <<payload, issue, lookup>>
toolVars == <<kube, v1_api, observation>>

vars == <<sessionVars, streamVars, issueVars, toolVars>>

Ended == {"end_badstart", "end_replay", "end_declined", "end_loop", "end_history",
          "end_handoff", "end_error", "end_exception", "end_disconnect"}

EmptyEntry == [diag_thread_id |-> None, sol_thread_id |-> None]

(* no connection has been accepted *)
NoSession ==
    /\ ISSUE_THREAD_MAP = [k \in Keys |-> EmptyEntry]
    /\ threads = [t \in ThreadIds |-> [n |-> 0, last |-> "invalid"]]
    /\ next_thread = 1
    /\ pc = [c \in Conns |-> "accept"]
    /\ issue_id = [c \in Conns |-> None]
    /\ existing_diag_id = [c \in Conns |-> None]
    /\ diag_thread = [c \in Conns |-> None]
    /\ current_input = [c \in Conns |-> Dead]
    /\ step_count = [c \in Conns |-> 0]
    /\ state = [c \in Conns |-> Dead]
    /\ out = [c \in Conns |-> <<>>]
    /\ connected = [c \in Conns |-> TRUE]

(* the parts of the program that Spec and SpecConc take as given *)
NoStream ==
    /\ stream = <<>>
    /\ fed = 0
    /\ buffer = <<>>
    /\ emitted = <<>>
    /\ parsed = Dead

NoIssue ==
    /\ payload = <<>>
    /\ issue = Dead
    /\ lookup = Dead

NoTool ==
    /\ kube = Dead
    /\ v1_api = None
    /\ observation = Dead

Init ==
    /\ NoSession
    /\ NoStream
    /\ NoIssue
    /\ NoTool

(* ---------------------------------------------------------------- events *)
(* A WebSocketPayload as the operator sees it.                              *)
Ev(event, status, diag, sol) ==
    [event |-> event, status |-> status, diag_thread_id |-> diag, sol_thread_id |-> sol,
     state |-> "None"]

Kinds(events) == {events[i].event : i \in DOMAIN events}

(* ----------------------------------------------------------- pure helpers *)
(* str(...).lower() on the decisions of the model *)
Lower(s) == IF s = "YES" THEN "yes" ELSE s

AskResume_AnyDecision(m) ==
    /\ m.frame = "json"
    /\ m.type = "resume"

(* _ask_resume: the value returned for an inbound frame *)
AskResume(m) ==
    /\ m.frame = "json"
    /\ m.type = "resume"
    /\ Lower(IF m.decision = "none" THEN "" ELSE m.decision) \in {"yes", "true", "y"}

AskIntervention_NoTypeCheck(m) ==
    IF m.frame # "json" THEN "none" ELSE m.decision

(* _ask_intervention: the value returned for an inbound frame ("none": None) *)
AskIntervention(m) ==
    IF m.frame # "json" THEN "none"
    ELSE IF m.type # "intervene" THEN "none"
    ELSE m.decision

(* _ask_intervention: the event it sends itself after the frame was received *)
AskInterventionErrors(m, diag) ==
    IF m.frame = "json" /\ m.type # "intervene"
    THEN <<Ev("error", "", diag, None)>>
    ELSE <<>>

(* What reaches the operator: nothing once the transport is gone. *)
Deliver(m, events) == IF m.frame = "disconnect" THEN <<>> ELSE events

(* send_json on the connection's transport: what reaches the operator *)
Sent(c, events) == IF connected[c] THEN events ELSE <<>>

(* _get_clean_history on a thread: its length, and what the text of its    *)
(* last element parses to.                                                 *)
HistoryLen(t) == IF t = None THEN 0 ELSE threads[t].n
LastText(t) == IF HistoryLen(t) = 0 THEN "invalid" ELSE threads[t].last

(* the check of the history bound *)
HistoryFull(len) == len >= max_history

MayStep_Inclusive(steps) == steps <= max_steps

(* the condition of the turn loop *)
MayStep(steps) == steps < max_steps

(* The handler leaves its body at the position end, having sent events.    *)
(* The turn loop's counter and input are gone; the model keeps the         *)
(* references and the Decision the handler last held.                      *)
Return(c, end, events) ==
    /\ pc' = [pc EXCEPT ![c] = end]
    /\ out' = [out EXCEPT ![c] = events]
    /\ current_input' = [current_input EXCEPT ![c] = Dead]
    /\ step_count' = [step_count EXCEPT ![c] = 0]

(* continue: back to the head of the turn loop with the next input *)
Continue(c, input) ==
    /\ pc' = [pc EXCEPT ![c] = "loop"]
    /\ out' = [out EXCEPT ![c] = <<>>]
    /\ current_input' = [current_input EXCEPT ![c] = input]
    /\ state' = [state EXCEPT ![c] = Dead]
    /\ UNCHANGED <<existing_diag_id, step_count>>

(* ---------------------------------------------------------------- actions *)
(* Connections are numbered in the order of their start messages. *)
IsNextToStart(c) ==
    /\ pc[c] = "accept"
    /\ \A b \in Conns : b < c => pc[b] # "accept"

(* Issue keys are numbered in the order of their first start message. *)
IsNextKey(k) ==
    k = 1 \/ \E b \in Conns : issue_id[b] = k - 1

StartInvalid_FallsThrough(c) ==
    /\ IsNextToStart(c)
    /\ out' = [out EXCEPT ![c] = <<Ev("error", "", None, None)>>]
    /\ pc' = [pc EXCEPT ![c] = "loop"]
    /\ issue_id' = [issue_id EXCEPT ![c] = 1]
    /\ current_input' = [current_input EXCEPT ![c] = start_input]
    /\ UNCHANGED <<ISSUE_THREAD_MAP, threads, next_thread, diag_thread,
                   existing_diag_id, state, step_count>>
    /\ UNCHANGED <<connected, streamVars, issueVars, toolVars>>

(* workflow_ws, first message is not a start with an issue *)
StartInvalid(c) ==
    /\ IsNextToStart(c)
    /\ Return(c, "end_badstart", <<Ev("error", "", None, None)>>)
    /\ UNCHANGED <<ISSUE_THREAD_MAP, threads, next_thread, issue_id, diag_thread,
                   existing_diag_id, state>>
    /\ UNCHANGED <<connected, streamVars, issueVars, toolVars>>

StartBranch_NeverResume(mapping) ==
    IF mapping.diag_thread_id # None /\ mapping.sol_thread_id # None
    THEN "end_replay"
    ELSE "loop"

(* workflow_ws's choice after the registry lookup: replay, resume question  *)
(* or a new thread, named by the position the handler goes to.             *)
StartBranch(mapping) ==
    IF mapping.diag_thread_id # None
    THEN IF mapping.sol_thread_id # None THEN "end_replay" ELSE "ask_resume"
    ELSE "loop"

(* workflow_ws from the start message to the first point where it waits for *)
(* the operator or the engine: registry lookup, replay, resume question.    *)
Start(c, k) ==
    /\ IsNextToStart(c)
    /\ IsNextKey(k)
    /\ LET mapping == ISSUE_THREAD_MAP[k]
           d == mapping.diag_thread_id
           s == mapping.sol_thread_id
       IN /\ issue_id' = [issue_id EXCEPT ![c] = k]
          /\ existing_diag_id' = [existing_diag_id EXCEPT ![c] = d]
          /\ IF StartBranch(mapping) = "end_replay"
             THEN Return(c, "end_replay", <<Ev("history", "", d, s),
                                            Ev("complete", "handoff", d, s)>>)
             ELSE IF StartBranch(mapping) = "ask_resume"
             THEN /\ out' = [out EXCEPT ![c] = <<Ev("history", "", d, s),
                                                Ev("resume_available", "", d, None)>>]
                  /\ pc' = [pc EXCEPT ![c] = "ask_resume"]
                  /\ current_input' = [current_input EXCEPT ![c] = start_input]
                  /\ UNCHANGED step_count
             ELSE /\ out' = [out EXCEPT ![c] = <<>>]
                  /\ pc' = [pc EXCEPT ![c] = "loop"]
                  /\ current_input' = [current_input EXCEPT ![c] = start_input]
                  /\ UNCHANGED step_count
    /\ UNCHANGED <<ISSUE_THREAD_MAP, threads, next_thread, diag_thread, state>>
    /\ UNCHANGED <<connected, streamVars, issueVars, toolVars>>

Resume_NewThread(c, m) ==
    /\ pc[c] = "ask_resume"
    /\ IF AskResume(m)
       THEN /\ current_input' = [current_input EXCEPT ![c] = resume_input]
            /\ out' = [out EXCEPT ![c] = <<>>]
            /\ pc' = [pc EXCEPT ![c] = "loop"]
            /\ UNCHANGED <<diag_thread, existing_diag_id, step_count, state>>
       ELSE /\ Return(c, "end_declined", Deliver(m,
                  <<Ev("complete", "in_progress", existing_diag_id[c], None)>>))
            /\ UNCHANGED <<diag_thread, existing_diag_id, state>>
    /\ UNCHANGED <<ISSUE_THREAD_MAP, threads, next_thread, issue_id>>
    /\ UNCHANGED <<connected, streamVars, issueVars, toolVars>>

(* the reply to resume_available *)
Resume(c, m) ==
    /\ pc[c] = "ask_resume"
    /\ IF AskResume(m)
       THEN /\ diag_thread' = [diag_thread EXCEPT ![c] = existing_diag_id[c]]
            /\ current_input' = [current_input EXCEPT ![c] = resume_input]
            /\ out' = [out EXCEPT ![c] = <<>>]
            /\ pc' = [pc EXCEPT ![c] = "loop"]
            /\ UNCHANGED <<existing_diag_id, step_count, state>>
       ELSE /\ Return(c, "end_declined", Deliver(m,
                  <<Ev("complete", "in_progress", existing_diag_id[c], None)>>))
            /\ UNCHANGED <<diag_thread, existing_diag_id, state>>
    /\ UNCHANGED <<ISSUE_THREAD_MAP, threads, next_thread, issue_id>>
    /\ UNCHANGED <<connected, streamVars, issueVars, toolVars>>

(* while step_count < max_steps: the condition is false, the handler ends *)
LoopExit(c) ==
    /\ pc[c] = "loop"
    /\ ~MayStep(step_count[c])
    /\ Return(c, "end_loop", <<>>)
    /\ UNCHANGED <<ISSUE_THREAD_MAP, threads, next_thread, issue_id, diag_thread,
                   existing_diag_id, state>>
    /\ UNCHANGED <<connected, streamVars, issueVars, toolVars>>

RecordDiagThread_Replaces(map, k, t) ==
    [map EXCEPT ![k] = [diag_thread_id |-> t, sol_thread_id |-> None]]

RecordDiagThread_Rebinds(map, k, t) ==
    [j \in Keys |-> IF j = k THEN [map[j] EXCEPT !.diag_thread_id = t] ELSE EmptyEntry]

(* _flush_diag_stream's finally block *)
RecordDiagThread(map, k, t) ==
    [map EXCEPT ![k].diag_thread_id = t]

(* One turn's engine call: step_count += 1 and _flush_diag_stream.  The     *)
(* engine creates the service thread on the first run of a new thread,      *)
(* appends n non-user messages of which the newest has text txt, and the    *)
(* stream carries nd schema-valid objects.  A send that fails is caught in  *)
(* the scan loop and the stream is read to its end.                         *)
FlushDiagStream(c, n, txt, nd) ==
    /\ pc[c] = "loop"
    /\ MayStep(step_count[c])
    /\ LET t == IF diag_thread[c] = None THEN next_thread ELSE diag_thread[c]
       IN /\ t \in ThreadIds
          /\ threads[t].n + n <= MaxMessages
          /\ step_count' = [step_count EXCEPT ![c] = @ + 1]
          /\ diag_thread' = [diag_thread EXCEPT ![c] = t]
          /\ next_thread' = IF diag_thread[c] = None THEN next_thread + 1 ELSE next_thread
          /\ threads' = [threads EXCEPT ![t] = [n |-> @.n + n, last |-> txt]]
          /\ ISSUE_THREAD_MAP' = RecordDiagThread(ISSUE_THREAD_MAP, issue_id[c], t)
          /\ out' = [out EXCEPT ![c] = Sent(c, [i \in 1..nd |->
                        [Ev("diagnostic", "", t, None) EXCEPT !.state = "AgentState"]])]
          /\ pc' = [pc EXCEPT ![c] = "flushed"]
          /\ current_input' = [current_input EXCEPT ![c] = Dead]
    /\ UNCHANGED <<issue_id, existing_diag_id, state>>
    /\ UNCHANGED <<connected, streamVars, issueVars, toolVars>>

FlushDiagStreamFails_Forgets(c, created) ==
    /\ pc[c] = "loop"
    /\ MayStep(step_count[c])
    /\ LET new == diag_thread[c] = None /\ created
           t == IF new THEN next_thread ELSE diag_thread[c]
       IN /\ new => t \in ThreadIds
          /\ diag_thread' = [diag_thread EXCEPT ![c] = t]
          /\ next_thread' = IF new THEN next_thread + 1 ELSE next_thread
          /\ ISSUE_THREAD_MAP' = ISSUE_THREAD_MAP
          /\ Return(c, "end_exception", Sent(c, <<Ev("error", "", None, None)>>))
    /\ UNCHANGED <<threads, issue_id, existing_diag_id, state>>
    /\ UNCHANGED <<connected, streamVars, issueVars, toolVars>>

(* The engine call raises: the finally block still records the thread, the  *)
(* exception reaches workflow_ws's handler, which sends an error.  A new     *)
(* thread may or may not have been created before the failure.               *)
FlushDiagStreamFails(c, created) ==
    /\ pc[c] = "loop"
    /\ MayStep(step_count[c])
    /\ LET new == diag_thread[c] = None /\ created
           t == IF new THEN next_thread ELSE diag_thread[c]
       IN /\ new => t \in ThreadIds
          /\ diag_thread' = [diag_thread EXCEPT ![c] = t]
          /\ next_thread' = IF new THEN next_thread + 1 ELSE next_thread
          /\ ISSUE_THREAD_MAP' = RecordDiagThread(ISSUE_THREAD_MAP, issue_id[c], t)
          /\ Return(c, "end_exception", Sent(c, <<Ev("error", "", None, None)>>))
    /\ UNCHANGED <<threads, issue_id, existing_diag_id, state>>
    /\ UNCHANGED <<connected, streamVars, issueVars, toolVars>>

(* _ask_intervention up to its receive: the request is sent and the         *)
(* handler waits at the gate; on a closed transport the send raises and     *)
(* the handler ends                                                         *)
Ask(c, st, request, gate) ==
    IF connected[c]
    THEN /\ out' = [out EXCEPT ![c] = <<Ev(request, "", diag_thread[c], None)>>]
         /\ pc' = [pc EXCEPT ![c] = gate]
         /\ state' = [state EXCEPT ![c] = st]
         /\ UNCHANGED <<existing_diag_id, current_input, step_count>>
    ELSE /\ Return(c, "end_disconnect", <<>>)
         /\ state' = [state EXCEPT ![c] = st]
         /\ UNCHANGED existing_diag_id

(* _get_clean_history raises after the stream: workflow_ws's handler sends  *)
(* an error                                                                 *)
GetHistoryFails(c) ==
    /\ pc[c] = "flushed"
    /\ Return(c, "end_exception", Sent(c, <<Ev("error", "", None, None)>>))
    /\ UNCHANGED <<ISSUE_THREAD_MAP, threads, next_thread, issue_id, diag_thread,
                   existing_diag_id, state>>
    /\ UNCHANGED <<connected, streamVars, issueVars, toolVars>>

Decide_UnknownActionEnds(c) ==
    /\ pc[c] = "flushed"
    /\ LET t == diag_thread[c]
           st == LastText(t)
       IN IF HistoryFull(HistoryLen(t))
          THEN /\ Return(c, IF connected[c] THEN "end_history" ELSE "end_disconnect",
                         Sent(c, <<Ev("complete", "in_progress", t, None)>>))
               /\ state' = [state EXCEPT ![c] = st]
               /\ UNCHANGED existing_diag_id
          ELSE IF st = "invalid"
          THEN Continue(c, continue_input)
          ELSE IF st = unknown_action
          THEN /\ Return(c, "end_error", <<Ev("error", "", t, None)>>)
               /\ state' = [state EXCEPT ![c] = st]
               /\ UNCHANGED existing_diag_id
          ELSE IF st = "handoff_to_solution_agent"
          THEN Ask(c, st, "handoff_approval", "ask_handoff")
          ELSE IF st = "await_user_approval"
          THEN Ask(c, st, "awaiting_approval", "ask_approval")
          ELSE Continue(c, continue_input)
    /\ UNCHANGED <<ISSUE_THREAD_MAP, threads, next_thread, issue_id, diag_thread>>
    /\ UNCHANGED <<connected, streamVars, issueVars, toolVars>>

Decide_NoWait(c) ==
    /\ pc[c] = "flushed"
    /\ LET t == diag_thread[c]
           st == LastText(t)
       IN IF HistoryFull(HistoryLen(t))
          THEN /\ Return(c, IF connected[c] THEN "end_history" ELSE "end_disconnect",
                         Sent(c, <<Ev("complete", "in_progress", t, None)>>))
               /\ state' = [state EXCEPT ![c] = st]
               /\ UNCHANGED existing_diag_id
          ELSE IF st = "invalid"
          THEN Continue(c, continue_input)
          ELSE IF st = "handoff_to_solution_agent"
          THEN Ask(c, st, "handoff_approval", "ask_handoff")
          ELSE IF st = "await_user_approval"
          THEN /\ out' = [out EXCEPT ![c] = Sent(c, <<Ev("awaiting_approval", "", t, None)>>)]
               /\ pc' = [pc EXCEPT ![c] = "loop"]
               /\ current_input' = [current_input EXCEPT ![c] = approved_input]
               /\ state' = [state EXCEPT ![c] = st]
               /\ UNCHANGED <<existing_diag_id, step_count>>
          ELSE Continue(c, continue_input)
    /\ UNCHANGED <<ISSUE_THREAD_MAP, threads, next_thread, issue_id, diag_thread>>
    /\ UNCHANGED <<connected, streamVars, issueVars, toolVars>>

Decide_InvalidEnds(c) ==
    /\ pc[c] = "flushed"
    /\ LET t == diag_thread[c]
           st == LastText(t)
       IN IF HistoryFull(HistoryLen(t))
          THEN /\ Return(c, IF connected[c] THEN "end_history" ELSE "end_disconnect",
                         Sent(c, <<Ev("complete", "in_progress", t, None)>>))
               /\ state' = [state EXCEPT ![c] = st]
               /\ UNCHANGED existing_diag_id
          ELSE IF st = "invalid"
          THEN /\ Return(c, "end_error", Sent(c, <<Ev("error", "", t, None)>>))
               /\ state' = [state EXCEPT ![c] = st]
               /\ UNCHANGED existing_diag_id
          ELSE IF st = "handoff_to_solution_agent"
          THEN Ask(c, st, "handoff_approval", "ask_handoff")
          ELSE IF st = "await_user_approval"
          THEN Ask(c, st, "awaiting_approval", "ask_approval")
          ELSE Continue(c, continue_input)
    /\ UNCHANGED <<ISSUE_THREAD_MAP, threads, next_thread, issue_id, diag_thread>>
    /\ UNCHANGED <<connected, streamVars, issueVars, toolVars>>

Decide_DecisionFirst(c) ==
    /\ pc[c] = "flushed"
    /\ LET t == diag_thread[c]
           st == LastText(t)
       IN IF st = "handoff_to_solution_agent"
          THEN Ask(c, st, "handoff_approval", "ask_handoff")
          ELSE IF st = "await_user_approval"
          THEN Ask(c, st, "awaiting_approval", "ask_approval")
          ELSE IF HistoryFull(HistoryLen(t))
          THEN /\ Return(c, IF connected[c] THEN "end_history" ELSE "end_disconnect",
                         Sent(c, <<Ev("complete", "in_progress", t, None)>>))
               /\ state' = [state EXCEPT ![c] = st]
               /\ UNCHANGED existing_diag_id
          ELSE Continue(c, continue_input)
    /\ UNCHANGED <<ISSUE_THREAD_MAP, threads, next_thread, issue_id, diag_thread>>
    /\ UNCHANGED <<connected, streamVars, issueVars, toolVars>>

(* After the stream: list the history, parse its last text, check the       *)
(* history bound, then act on the Decision up to the next wait.             *)
Decide(c) ==
    /\ pc[c] = "flushed"
    /\ LET t == diag_thread[c]
           st == LastText(t)
       IN IF HistoryFull(HistoryLen(t))
          THEN /\ Return(c, IF connected[c] THEN "end_history" ELSE "end_disconnect",
                         Sent(c, <<Ev("complete", "in_progress", t, None)>>))
               /\ state' = [state EXCEPT ![c] = st]
               /\ UNCHANGED existing_diag_id
          ELSE IF st = "invalid"
          THEN Continue(c, continue_input)
          ELSE IF st = "handoff_to_solution_agent"
          THEN Ask(c, st, "handoff_approval", "ask_handoff")
          ELSE IF st = "await_user_approval"
          THEN Ask(c, st, "awaiting_approval", "ask_approval")
          ELSE Continue(c, continue_input)
    /\ UNCHANGED <<ISSUE_THREAD_MAP, threads, next_thread, issue_id, diag_thread>>
    /\ UNCHANGED <<connected, streamVars, issueVars, toolVars>>

HandoffReply_DenyReasks(c, m) ==
    /\ pc[c] = "ask_handoff"
    /\ LET decision == AskIntervention(m)
           t == diag_thread[c]
       IN IF decision = "approve"
          THEN /\ out' = [out EXCEPT ![c] = <<>>]
               /\ pc' = [pc EXCEPT ![c] = "solution"]
               /\ UNCHANGED <<existing_diag_id, current_input, step_count, state>>
          ELSE IF decision = "deny"
          THEN /\ out' = [out EXCEPT ![c] = <<>>]
               /\ pc' = [pc EXCEPT ![c] = "flushed"]
               /\ UNCHANGED <<existing_diag_id, current_input, step_count, state>>
          ELSE /\ Return(c, "end_error", Deliver(m,
                      AskInterventionErrors(m, t) \o <<Ev("error", "", t, None)>>))
               /\ UNCHANGED <<existing_diag_id, state>>
    /\ UNCHANGED <<ISSUE_THREAD_MAP, threads, next_thread, issue_id, diag_thread>>
    /\ UNCHANGED <<connected, streamVars, issueVars, toolVars>>

HandoffReply_DenyEnds(c, m) ==
    /\ pc[c] = "ask_handoff"
    /\ LET decision == AskIntervention(m)
           t == diag_thread[c]
       IN IF decision = "approve"
          THEN /\ out' = [out EXCEPT ![c] = <<>>]
               /\ pc' = [pc EXCEPT ![c] = "solution"]
               /\ UNCHANGED <<existing_diag_id, current_input, step_count, state>>
          ELSE /\ Return(c, "end_error", Deliver(m,
                      AskInterventionErrors(m, t) \o <<Ev("error", "", t, None)>>))
               /\ UNCHANGED <<existing_diag_id, state>>
    /\ UNCHANGED <<ISSUE_THREAD_MAP, threads, next_thread, issue_id, diag_thread>>
    /\ UNCHANGED <<connected, streamVars, issueVars, toolVars>>

(* the reply to handoff_approval *)
HandoffReply(c, m) ==
    /\ pc[c] = "ask_handoff"
    /\ LET decision == AskIntervention(m)
           t == diag_thread[c]
       IN IF decision = "approve"
          THEN /\ out' = [out EXCEPT ![c] = <<>>]
               /\ pc' = [pc EXCEPT ![c] = "solution"]
               /\ UNCHANGED <<existing_diag_id, current_input, step_count, state>>
          ELSE IF decision = "deny"
          THEN Continue(c, handoff_denied_input)
          ELSE /\ Return(c, "end_error", Deliver(m,
                      AskInterventionErrors(m, t) \o <<Ev("error", "", t, None)>>))
               /\ UNCHANGED <<existing_diag_id, state>>
    /\ UNCHANGED <<ISSUE_THREAD_MAP, threads, next_thread, issue_id, diag_thread>>
    /\ UNCHANGED <<connected, streamVars, issueVars, toolVars>>

ApprovalReply_DenyErrors(c, m) ==
    /\ pc[c] = "ask_approval"
    /\ LET d == AskIntervention(m)
           t == diag_thread[c]
       IN IF d = "approve"
          THEN Continue(c, approved_input)
          ELSE IF d = "deny"
          THEN /\ Return(c, "end_error", <<Ev("error", "", t, None)>>)
               /\ UNCHANGED <<existing_diag_id, state>>
          ELSE IF d = "handoff"
          THEN Continue(c, manual_handoff_input)
          ELSE /\ Return(c, "end_error", Deliver(m,
                      AskInterventionErrors(m, t) \o <<Ev("error", "", t, None)>>))
               /\ UNCHANGED <<existing_diag_id, state>>
    /\ UNCHANGED <<ISSUE_THREAD_MAP, threads, next_thread, issue_id, diag_thread>>
    /\ UNCHANGED <<connected, streamVars, issueVars, toolVars>>

ApprovalReply_HandoffNow(c, m) ==
    /\ pc[c] = "ask_approval"
    /\ LET d == AskIntervention(m)
           t == diag_thread[c]
       IN IF d = "approve"
          THEN Continue(c, approved_input)
          ELSE IF d = "deny"
          THEN Continue(c, denied_input)
          ELSE IF d = "handoff"
          THEN /\ out' = [out EXCEPT ![c] = <<>>]
               /\ pc' = [pc EXCEPT ![c] = "solution"]
               /\ UNCHANGED <<existing_diag_id, current_input, step_count, state>>
          ELSE /\ Return(c, "end_error", Deliver(m,
                      AskInterventionErrors(m, t) \o <<Ev("error", "", t, None)>>))
               /\ UNCHANGED <<existing_diag_id, state>>
    /\ UNCHANGED <<ISSUE_THREAD_MAP, threads, next_thread, issue_id, diag_thread>>
    /\ UNCHANGED <<connected, streamVars, issueVars, toolVars>>

ApprovalReply_OpensGate(c, m) ==
    /\ pc[c] = "ask_approval"
    /\ LET d == AskIntervention(m)
           t == diag_thread[c]
       IN IF d = "approve"
          THEN Continue(c, approved_input)
          ELSE IF d = "deny"
          THEN Continue(c, denied_input)
          ELSE IF d = "handoff"
          THEN Ask(c, state[c], "handoff_approval", "ask_handoff")
          ELSE /\ Return(c, "end_error", Deliver(m,
                      AskInterventionErrors(m, t) \o <<Ev("error", "", t, None)>>))
               /\ UNCHANGED <<existing_diag_id, state>>
    /\ UNCHANGED <<ISSUE_THREAD_MAP, threads, next_thread, issue_id, diag_thread>>
    /\ UNCHANGED <<connected, streamVars, issueVars, toolVars>>

(* the reply to awaiting_approval *)
ApprovalReply(c, m) ==
    /\ pc[c] = "ask_approval"
    /\ LET d == AskIntervention(m)
           t == diag_thread[c]
       IN IF d = "approve"
          THEN Continue(c, approved_input)
          ELSE IF d = "deny"
          THEN Continue(c, denied_input)
          ELSE IF d = "handoff"
          THEN Continue(c, manual_handoff_input)
          ELSE /\ Return(c, "end_error", Deliver(m,
                      AskInterventionErrors(m, t) \o <<Ev("error", "", t, None)>>))
               /\ UNCHANGED <<existing_diag_id, state>>
    /\ UNCHANGED <<ISSUE_THREAD_MAP, threads, next_thread, issue_id, diag_thread>>
    /\ UNCHANGED <<connected, streamVars, issueVars, toolVars>>

(* _run_solution_and_emit's registry assignment *)
RecordSolution(map, k, d, s) ==
    [map EXCEPT ![k] = [diag_thread_id |-> d, sol_thread_id |-> s]]

(* what SolutionResponse.model_validate makes of the solution engine's text *)
SolutionTexts == {"SolutionResponse", "invalid"}

RunSolutionAndEmit_ParseFails(c, text) ==
    /\ pc[c] = "solution"
    /\ next_thread \in ThreadIds
    /\ LET s == next_thread
           t == diag_thread[c]
       IN /\ next_thread' = next_thread + 1
          /\ ISSUE_THREAD_MAP' = RecordSolution(ISSUE_THREAD_MAP, issue_id[c], t, s)
          /\ IF text = "invalid"
             THEN Return(c, "end_error", <<Ev("error", "", t, s)>>)
             ELSE Return(c, "end_handoff",
                         <<[Ev("handoff", "", t, s) EXCEPT !.state = text],
                           Ev("history", "", t, s),
                           Ev("complete", "handoff", t, s)>>)
    /\ UNCHANGED <<threads, issue_id, diag_thread, existing_diag_id, state>>
    /\ UNCHANGED <<connected, streamVars, issueVars, toolVars>>

(* _run_solution_and_emit: the solution engine runs on a new thread and     *)
(* answers text, then the registry entry is replaced and handoff (with the  *)
(* parsed solution, None when the text does not parse), history, complete   *)
(* are sent; a send that fails is caught and the function returns.          *)
RunSolutionAndEmit(c, text) ==
    /\ pc[c] = "solution"
    /\ next_thread \in ThreadIds
    /\ LET s == next_thread
           t == diag_thread[c]
       IN /\ next_thread' = next_thread + 1
          /\ ISSUE_THREAD_MAP' = RecordSolution(ISSUE_THREAD_MAP, issue_id[c], t, s)
          /\ Return(c, "end_handoff", Sent(c,
                    <<[Ev("handoff", "", t, s) EXCEPT
                          !.state = IF text = "invalid" THEN "None" ELSE text],
                      Ev("history", "", t, s),
                      Ev("complete", "handoff", t, s)>>))
    /\ UNCHANGED <<threads, issue_id, diag_thread, existing_diag_id, state>>
    /\ UNCHANGED <<connected, streamVars, issueVars, toolVars>>

RunSolutionFails_BackToLoop(c) ==
    /\ pc[c] = "solution"
    /\ Continue(c, continue_input)
    /\ UNCHANGED <<ISSUE_THREAD_MAP, threads, next_thread, issue_id, diag_thread>>
    /\ UNCHANGED <<connected, streamVars, issueVars, toolVars>>

(* _run_solution_and_emit: the solution engine call raises *)
RunSolutionFails(c) ==
    /\ pc[c] = "solution"
    /\ Return(c, "end_exception", Sent(c, <<Ev("error", "", None, None)>>))
    /\ UNCHANGED <<ISSUE_THREAD_MAP, threads, next_thread, issue_id, diag_thread,
                   existing_diag_id, state>>
    /\ UNCHANGED <<connected, streamVars, issueVars, toolVars>>

(* The handler's finally block has closed the transport; the operator may  *)
(* open the next connection.                                               *)
Reconnect(c) ==
    /\ pc[c] \in Ended
    /\ pc' = [pc EXCEPT ![c] = "accept"]
    /\ out' = [out EXCEPT ![c] = <<>>]
    /\ issue_id' = [issue_id EXCEPT ![c] = None]
    /\ diag_thread' = [diag_thread EXCEPT ![c] = None]
    /\ existing_diag_id' = [existing_diag_id EXCEPT ![c] = None]
    /\ state' = [state EXCEPT ![c] = Dead]
    /\ connected' = [connected EXCEPT ![c] = TRUE]
    /\ UNCHANGED <<ISSUE_THREAD_MAP, threads, next_thread, current_input, step_count>>
    /\ UNCHANGED <<streamVars, issueVars, toolVars>>

(* The operator's side of the transport goes away while an engine runs or   *)
(* the handler works on its result.  (At a gate it is the inbound frame     *)
(* "disconnect".)                                                           *)
Disconnect(c) ==
    /\ pc[c] \in {"loop", "flushed", "solution"}
    /\ connected[c]
    /\ connected' = [connected EXCEPT ![c] = FALSE]
    /\ UNCHANGED <<ISSUE_THREAD_MAP, threads, next_thread, pc, issue_id, existing_diag_id,
                   diag_thread, current_input, step_count, state, out>>
    /\ UNCHANGED <<streamVars, issueVars, toolVars>>

(* One step of connection c, whose start message names an issue of K and  *)
(* whose engine runs leave a number of messages of A and stream a number   *)
(* of objects of D.                                                        *)
Session(c, K, A, D) ==
    \/ StartInvalid(c)
    \/ \E k \in K : Start(c, k)
    \/ \E m \in Inbound : Resume(c, m)
    \/ LoopExit(c)
    \/ \E n \in A, txt \in Texts, nd \in D : FlushDiagStream(c, n, txt, nd)
    \/ \E created \in BOOLEAN : FlushDiagStreamFails(c, created)
    \/ Decide(c)
    \/ GetHistoryFails(c)
    \/ \E m \in Inbound : HandoffReply(c, m)
    \/ \E m \in Inbound : ApprovalReply(c, m)
    \/ \E text \in SolutionTexts : RunSolutionAndEmit(c, text)
    \/ RunSolutionFails(c)

(* Spec: the sessions of one issue, one connection at a time, any number   *)
(* of them one after another.                                              *)
Next ==
    \/ Session(1, {1}, Appends, 0..1)
    \/ Reconnect(1)
    \/ Disconnect(1)

Spec == Init /\ [][Next]_vars

(* SpecLive: Spec where the handler's task is scheduled, every call of the  *)
(* engine and the thread store returns (with a result or an exception) and  *)
(* the operator answers every request, so that a step of the session is     *)
(* taken whenever one stays possible.  Opening the next connection and      *)
(* closing the transport are the operator's choice.                         *)
SpecLive == Init /\ [][Next]_vars /\ WF_vars(Session(1, {1}, Appends, 0..1))

(* SpecConc: NumConns connections at once, one session each, on NumKeys    *)
(* issues; every engine run leaves one message and streams one object.     *)
NextConc ==
    \E c \in Conns : Session(c, Keys, {1}, {1})

SpecConc == Init /\ [][NextConc]_vars

(* ================================================= _flush_diag_stream *)
(* A text is a sequence of characters.  The texts of the model are JSON     *)
(* without whitespace, numbers and escapes; the names and words of the      *)
(* Decision schema are written with one letter each: t thought, a action,   *)
(* i action_input, n next_action, r root_cause; c continue,                 *)
(* w await_user_approval, h handoff_to_solution_agent.                      *)
Quote == "\""

(* Python's None where a text is expected *)
NoText == <<"None">>

next_action_of == [c |-> "continue", w |-> "await_user_approval",
                   h |-> "handoff_to_solution_agent"]

(* str.find: the index of the first ch in s from s[i] on, 0 when there is   *)
(* none                                                                     *)
Find(s, ch, i) ==
    IF \E j \in i..Len(s) : s[j] = ch
    THEN CHOOSE j \in i..Len(s) : s[j] = ch /\ \A k \in i..(j - 1) : s[k] # ch
    ELSE 0

(* s[i:] with i counted from 1 *)
From(s, i) == SubSeq(s, i, Len(s))

(* ---- json.JSONDecoder.raw_decode on an object ---- *)
JSONDecodeError == [ok |-> FALSE, end |-> 0, kind |-> "none", text |-> <<>>, members |-> <<>>]

Decoded(end, kind, text, members) ==
    [ok |-> TRUE, end |-> end, kind |-> kind, text |-> text, members |-> members]

RECURSIVE scan_once(_, _)
RECURSIVE JSONObject(_, _, _)
RECURSIVE JSONArray(_, _)

(* a string whose opening quote is s[i] and whose closing quote is s[j] *)
JSONString(s, i, j) ==
    IF j = 0 THEN JSONDecodeError
    ELSE Decoded(j, "str", SubSeq(s, i + 1, j - 1), <<>>)

(* the value that begins at s[i]; end is the index of its last character *)
scan_once(s, i) ==
    IF i > Len(s) THEN JSONDecodeError
    ELSE IF s[i] = Quote THEN JSONString(s, i, Find(s, Quote, i + 1))
    ELSE IF s[i] = "{"
    THEN IF i + 1 <= Len(s) /\ s[i + 1] = "}"
         THEN Decoded(i + 1, "dict", <<>>, <<>>)
         ELSE JSONObject(s, i + 1, <<>>)
    ELSE IF s[i] = "["
    THEN IF i + 1 <= Len(s) /\ s[i + 1] = "]"
         THEN Decoded(i + 1, "list", <<>>, <<>>)
         ELSE JSONArray(s, i + 1)
    ELSE JSONDecodeError

(* an object after the value v of its member key *)
AfterMember(s, key, v, members) ==
    IF ~v.ok \/ v.end + 1 > Len(s) THEN JSONDecodeError
    ELSE IF s[v.end + 1] = "}"
    THEN Decoded(v.end + 1, "dict", <<>>,
                 Append(members, [key |-> key, kind |-> v.kind, text |-> v.text]))
    ELSE IF s[v.end + 1] = ","
    THEN JSONObject(s, v.end + 2,
                    Append(members, [key |-> key, kind |-> v.kind, text |-> v.text]))
    ELSE JSONDecodeError

(* an object after the key whose quotes are s[i] and s[j] *)
AfterKey(s, i, j, members) ==
    IF j = 0 \/ j + 1 > Len(s) \/ s[j + 1] # ":" THEN JSONDecodeError
    ELSE AfterMember(s, SubSeq(s, i + 1, j - 1), scan_once(s, j + 2), members)

(* the members of an object from the key at s[i] on *)
JSONObject(s, i, members) ==
    IF i > Len(s) \/ s[i] # Quote THEN JSONDecodeError
    ELSE AfterKey(s, i, Find(s, Quote, i + 1), members)

(* an array after its item v *)
AfterItem(s, v) ==
    IF ~v.ok \/ v.end + 1 > Len(s) THEN JSONDecodeError
    ELSE IF s[v.end + 1] = "]" THEN Decoded(v.end + 1, "list", <<>>, <<>>)
    ELSE IF s[v.end + 1] = "," THEN JSONArray(s, v.end + 2)
    ELSE JSONDecodeError

(* the items of an array from the item at s[i] on *)
JSONArray(s, i) == AfterItem(s, scan_once(s, i))

(* decoder.raw_decode(s) for an s that begins with a brace: the object's    *)
(* members and the number of characters it spans                            *)
raw_decode(s) == scan_once(s, 1)

(* ---- AgentState ---- *)
(* obj.get(key): kind and text of the member, the last one of that key *)
RECURSIVE Member(_, _, _)
Member(members, key, i) ==
    IF i = 0 THEN [kind |-> "absent", text |-> NoText]
    ELSE IF members[i].key = <<key>> THEN [kind |-> members[i].kind, text |-> members[i].text]
    ELSE Member(members, key, i - 1)

Get(members, key) == Member(members, key, Len(members))

Optional(member, kind) == member.kind \in {"absent", kind}

(* state = None, and state before the turn loop has assigned it *)
NoState(why) ==
    [thought |-> NoText, action |-> NoText, action_input |-> "absent",
     next_action |-> why, root_cause |-> NoText]

StateNone == NoState("invalid")
NotParsed == NoState(Dead)

(* AgentState.model_validate(obj) raises no ValidationError *)
IsAgentState(members) ==
    /\ Get(members, "t").kind = "str"
    /\ Optional(Get(members, "a"), "str")
    /\ Optional(Get(members, "i"), "dict")
    /\ Get(members, "n").kind = "str"
    /\ Get(members, "n").text \in {<<"c">>, <<"w">>, <<"h">>}
    /\ Optional(Get(members, "r"), "str")

(* the AgentState that model_validate makes of a valid obj *)
AgentState(members) ==
    [thought |-> Get(members, "t").text,
     action |-> Get(members, "a").text,
     action_input |-> Get(members, "i").kind,
     next_action |-> next_action_of[Get(members, "n").text[1]],
     root_cause |-> Get(members, "r").text]

(* AgentState.model_validate_json(text), StateNone where it raises *)
model_validate_json(text) ==
    IF Len(text) = 0 \/ text[1] # "{" THEN StateNone
    ELSE LET d == raw_decode(text)
         IN IF d.ok /\ d.end = Len(text) /\ IsAgentState(d.members)
            THEN AgentState(d.members)
            ELSE StateNone

(* ---- the engine's text ---- *)
Str(text) == <<Quote>> \o text \o <<Quote>>

Pair(key, value) == Str(<<key>>) \o <<":">> \o value

RECURSIVE Joined(_, _)
Joined(pairs, i) ==
    IF i > Len(pairs) THEN <<>>
    ELSE (IF i > 1 THEN <<",">> ELSE <<>>) \o pairs[i] \o Joined(pairs, i + 1)

Obj(pairs) == <<"{">> \o Joined(pairs, 1) \o <<"}">>

Thought(text) == Pair("t", Str(text))
NextAction(word) == Pair("n", Str(<<word>>))
Action == Pair("a", Str(<<"g">>))
RootCause == Pair("r", Str(<<"y">>))

(* What a stream is made of: a Decision without action; Decisions whose     *)
(* action arguments are an object, a list, a string; a handoff with its     *)
(* root cause; a handoff with an action and no root cause; an object that   *)
(* is no Decision; an object that is no Decision and holds a Decision as a  *)
(* member's value; text that is no JSON; text without a brace.              *)
Pieces == {
    Obj(<<Thought(<<"x">>), NextAction("c")>>),
    Obj(<<Thought(<<"{">>), Pair("i", Obj(<<Pair("p", Str(<<"}">>))>>)), NextAction("c")>>),
    Obj(<<Thought(<<"x">>), Pair("i", <<"[">> \o Str(<<"p">>) \o <<"]">>), NextAction("c")>>),
    Obj(<<Thought(<<"x">>), Pair("i", Str(<<"p">>)), NextAction("c")>>),
    Obj(<<Thought(<<"x">>), NextAction("h"), RootCause>>),
    Obj(<<Thought(<<"x">>), Action, NextAction("h")>>),
    Obj(<<NextAction("c")>>),
    Obj(<<Pair("i", Obj(<<Thought(<<"x">>), NextAction("c")>>))>>),
    <<"{", "x", "}">>,
    <<"x">>
}

RECURSIVE StreamsOf(_)
StreamsOf(n) ==
    IF n = 0 THEN {<<>>}
    ELSE LET shorter == StreamsOf(n - 1)
         IN shorter \cup {s \o p : s \in shorter, p \in Pieces}

Streams == StreamsOf(MaxObjects)

(* ---- the assembler ---- *)
Attempt_SkipOnDecodeError(d) ==
    IF ~d.ok THEN [more |-> TRUE, skip |-> 1, sent |-> FALSE, state |-> StateNone]
    ELSE IF IsAgentState(d.members)
    THEN [more |-> TRUE, skip |-> d.end, sent |-> TRUE, state |-> AgentState(d.members)]
    ELSE [more |-> TRUE, skip |-> 1, sent |-> FALSE, state |-> StateNone]

(* One pass of the try block, d being raw_decode(buffer[start:]): whether   *)
(* the while loop goes on, how many characters from start on the buffer     *)
(* loses, and the AgentState of the event if one is sent.                   *)
Attempt(d) ==
    IF ~d.ok THEN [more |-> FALSE, skip |-> 0, sent |-> FALSE, state |-> StateNone]
    ELSE IF IsAgentState(d.members)
    THEN [more |-> TRUE, skip |-> d.end, sent |-> TRUE, state |-> AgentState(d.members)]
    ELSE [more |-> TRUE, skip |-> 1, sent |-> FALSE, state |-> StateNone]

(* the diagnostic event; from and to say where in the stream its text was *)
Diagnostic(st, from, to) ==
    [event |-> "diagnostic", state |-> st, from |-> from, to |-> to]

RECURSIVE Scan(_, _, _)

(* the while loop after the pass a on tail = buffer[start:] *)
Scanned(buf, tail, a, total, events) ==
    IF ~a.more THEN [buffer |-> buf, events |-> events]
    ELSE Scan(From(tail, a.skip + 1), total,
              IF a.sent
              THEN Append(events, Diagnostic(a.state, total - Len(tail) + 1,
                                             total - Len(tail) + a.skip))
              ELSE events)

(* the while loop from the brace at buf[start] on *)
ScanFrom(buf, start, total, events) ==
    IF start = 0 THEN [buffer |-> buf, events |-> events]
    ELSE Scanned(buf, From(buf, start), Attempt(raw_decode(From(buf, start))),
                 total, events)

(* the while loop over the buffer, total characters having been received *)
Scan(buf, total, events) == ScanFrom(buf, Find(buf, "{", 1), total, events)

(* the buffer and the events after the update *)
Received(r) ==
    /\ buffer' = r.buffer
    /\ emitted' = r.events

(* one update of the stream: its text is the next n characters *)
Update(n) ==
    /\ n \in 1..(Len(stream) - fed)
    /\ Received(Scan(buffer \o SubSeq(stream, fed + 1, fed + n), fed + n, emitted))
    /\ fed' = fed + n
    /\ UNCHANGED <<stream, parsed>>
    /\ UNCHANGED <<sessionVars, issueVars, toolVars>>

(* the next request of the turn loop for a state, "none" when it sends none *)
Request(st) ==
    IF st.next_action = "handoff_to_solution_agent" THEN "handoff_approval"
    ELSE IF st.next_action = "await_user_approval" THEN "awaiting_approval"
    ELSE "none"

(* After the stream has ended the turn loop parses the text of the newest   *)
(* message of the thread, which is the text the engine streamed.            *)
ParseLastText ==
    /\ fed = Len(stream)
    /\ parsed = NotParsed
    /\ parsed' = model_validate_json(stream)
    /\ UNCHANGED <<stream, fed, buffer, emitted>>
    /\ UNCHANGED <<sessionVars, issueVars, toolVars>>

InitStream ==
    /\ NoSession
    /\ stream \in Streams
    /\ fed = 0
    /\ buffer = <<>>
    /\ emitted = <<>>
    /\ parsed = NotParsed
    /\ NoIssue
    /\ NoTool

NextStream ==
    \/ \E n \in 1..(Len(stream) - fed) : Update(n)
    \/ ParseLastText

(* SpecStream: one call of _flush_diag_stream on a stream of at most        *)
(* MaxObjects pieces, cut into updates in every way, and the parse after it *)
SpecStream == InitStream /\ [][NextStream]_vars

(* ============================================================ HealthIssue *)
(* The values of an issue payload are texts over the letters a, A, b, the   *)
(* blank and the bar; P and N stand for the resource types Pod and Node.    *)
lower_of == [a |-> "a", A |-> "a", b |-> "b", P |-> "p", N |-> "n"]

(* str.lower *)
StrLower(s) == [k \in DOMAIN s |-> IF s[k] \in DOMAIN lower_of THEN lower_of[s[k]] ELSE s[k]]

(* str.strip *)
RECURSIVE StrStrip(_)
StrStrip(s) ==
    IF s = <<>> THEN s
    ELSE IF Head(s) = " " THEN StrStrip(Tail(s))
    ELSE IF s[Len(s)] = " " THEN StrStrip(SubSeq(s, 1, Len(s) - 1))
    ELSE s

(* v or default: None and the empty text are false *)
Or(v, default) == IF v = NoText \/ v = <<>> THEN default ELSE v

Placeholder == <<"-">>

canonical_key(self) ==
    StrLower(StrStrip(Or(self.issueType, Placeholder))) \o <<"|">>
    \o StrLower(StrStrip(self.resourceType)) \o <<"|">>
    \o StrLower(StrStrip(Or(self.namespace, Placeholder))) \o <<"|">>
    \o StrLower(StrStrip(Or(self.resourceName, Placeholder))) \o <<"|">>
    \o StrLower(StrStrip(Or(self.container, Placeholder)))

(* the digest is a function of the key; it stands for itself *)
compute_issue_id(self) == <<"iss-">> \o canonical_key(self)

(* the value of the payload's member of that name, None when it has none *)
RECURSIVE Named(_, _, _)
Named(pairs, name, i) ==
    IF i = 0 THEN NoText
    ELSE IF pairs[i][1] = name THEN pairs[i][2]
    ELSE Named(pairs, name, i - 1)

Fields(pairs) ==
    [issueType |-> Named(pairs, "issueType", Len(pairs)),
     severity |-> Named(pairs, "severity", Len(pairs)),
     resourceType |-> Named(pairs, "resourceType", Len(pairs)),
     namespace |-> Named(pairs, "namespace", Len(pairs)),
     resourceName |-> Named(pairs, "resourceName", Len(pairs)),
     container |-> Named(pairs, "container", Len(pairs)),
     issueId |-> Named(pairs, "issueId", Len(pairs))]

_populate_issue_id(self) ==
    IF self.issueId = NoText \/ self.issueId = <<>>
    THEN [self EXCEPT !.issueId = compute_issue_id(self)]
    ELSE self

(* the HealthIssue made of the payload's members *)
HealthIssue(pairs) == _populate_issue_id(Fields(pairs))

(* issue before it is constructed *)
NotConstructed ==
    [issueType |-> NoText, severity |-> NoText, resourceType |-> NoText,
     namespace |-> NoText, resourceName |-> NoText, container |-> NoText,
     issueId |-> NoText]

(* the issue payloads of the model: every record of these values, its       *)
(* members in one of two orders                                             *)
IssueValues ==
    [issueType : {<<"a">>, <<"A">>},
     severity : {<<"a">>, <<"b">>},
     resourceType : {<<"P">>, <<"N">>},
     namespace : {NoText, <<>>, <<" ">>, <<"a">>, <<"A", " ">>, <<"a", "|", "a">>},
     resourceName : {<<"a">>, <<" ", "a">>, <<"b">>, <<"a", "|", "a">>},
     container : {NoText, <<"a">>},
     issueId : {NoText, <<>>, <<"b">>}]

Orders == {
    <<"issueType", "severity", "resourceType", "namespace", "resourceName", "container", "issueId">>,
    <<"issueId", "container", "resourceName", "namespace", "resourceType", "severity", "issueType">>
}

(* a member that is None is not in the payload *)
RECURSIVE PairsOf(_, _, _)
PairsOf(values, order, i) ==
    IF i > Len(order) THEN <<>>
    ELSE (IF values[order[i]] = NoText THEN <<>> ELSE <<<<order[i], values[order[i]]>>>>)
         \o PairsOf(values, order, i + 1)

Payloads == {PairsOf(v, o, 1) : v \in IssueValues, o \in Orders}

(* line 283: issue is constructed from the start message's payload *)
Construct ==
    /\ issue = NotConstructed
    /\ issue' = HealthIssue(payload)
    /\ UNCHANGED <<payload, lookup>>
    /\ UNCHANGED <<sessionVars, streamVars, toolVars>>

(* lines 299-300: the key of the registry lookup *)
LookUp ==
    /\ issue # NotConstructed
    /\ lookup = NoText
    /\ lookup' = IF issue.issueId = NoText THEN <<>> ELSE issue.issueId
    /\ UNCHANGED <<payload, issue>>
    /\ UNCHANGED <<sessionVars, streamVars, toolVars>>

InitIssue ==
    /\ NoSession
    /\ NoStream
    /\ payload \in Payloads
    /\ issue = NotConstructed
    /\ lookup = NoText
    /\ NoTool

NextIssue ==
    \/ Construct
    \/ LookUp

(* SpecIssue: one start message's issue payload, constructed and looked up *)
SpecIssue == InitIssue /\ [][NextIssue]_vars

(* =============================================================== k8s_diag *)
(* What a call meets: the kubernetes package is installed, the in-cluster   *)
(* configuration loads, the kubeconfig file loads, an API object can be     *)
(* constructed, the query to the API server succeeds.                       *)
Envs == [client : BOOLEAN, incluster : BOOLEAN, kubeconfig : BOOLEAN,
         construct : BOOLEAN, query : BOOLEAN]

(* create_tools *)
Collectors == {"get_pod_diagnostics", "get_pod_events", "get_image_pull_events",
               "get_service_account_details", "get_secret_exists", "get_workload_yaml",
               "get_pod_top_metrics", "get_pod_scheduling_events", "get_nodes_overview",
               "get_pvc_details", "get_namespace_resource_quota",
               "get_namespace_limit_ranges"}

WorkloadKinds == {"Pod", "Deployment", "StatefulSet", "Job"}

(* the call did not return: its exception went to the caller *)
Raised == "raised"

(* what a call gave, and what failed in it *)
Observed(text, failure) == [text |-> text, failure |-> failure]

NotCalled == [tool |-> Dead, result |-> Observed(Dead, "none")]

(* _load_kube_config returns (TRUE) or raises (FALSE): config is None when  *)
(* the package is missing; else the in-cluster load, and when that raises   *)
(* the kubeconfig load, whose exception is not caught                       *)
_load_kube_config(k) == k.client => (k.incluster \/ k.kubeconfig)

(* get_v1_api: the cached object, or a new one after loading the            *)
(* configuration; raised names what raised                                  *)
get_v1_api(k, api) ==
    IF api # None THEN [raised |-> "none", api |-> api]
    ELSE IF ~_load_kube_config(k) THEN [raised |-> "config", api |-> None]
    ELSE IF ~k.construct THEN [raised |-> "construct", api |-> None]
    ELSE [raised |-> "none", api |-> 1]

(* a collector that queries through get_v1_api: the client check, the       *)
(* configuration and the API object come before its try block               *)
CoreV1Call(k, api, done, failed) ==
    IF ~k.client
    THEN [result |-> Observed("Tool Error: kubernetes client not installed", "not_installed"),
          api |-> api]
    ELSE IF ~_load_kube_config(k)
    THEN [result |-> Observed(Raised, "config"), api |-> api]
    ELSE LET v1 == get_v1_api(k, api)
         IN IF v1.raised # "none"
            THEN [result |-> Observed(Raised, v1.raised), api |-> v1.api]
            ELSE IF ~k.query
            THEN [result |-> Observed(failed, "query"), api |-> v1.api]
            ELSE [result |-> Observed(done, "none"), api |-> v1.api]

(* a collector that constructs its API object in its try block *)
OwnApiCall(k, api, supported, failed) ==
    IF ~k.client
    THEN [result |-> Observed("Tool Error: kubernetes client not installed", "not_installed"),
          api |-> api]
    ELSE IF ~_load_kube_config(k)
    THEN [result |-> Observed(Raised, "config"), api |-> api]
    ELSE IF ~supported
    THEN [result |-> Observed("Unsupported kind", "kind"), api |-> api]
    ELSE IF ~k.construct
    THEN [result |-> Observed(failed, "construct"), api |-> api]
    ELSE IF ~k.query
    THEN [result |-> Observed(failed, "query"), api |-> api]
    ELSE [result |-> Observed("report", "none"), api |-> api]

(* the call tool(kind, ...) where it meets k, with _v1_api = api *)
Collector(tool, kind, k, api) ==
    IF tool = "get_secret_exists"
    THEN CoreV1Call(k, api, "{exists: true}", "{exists: false}")
    ELSE IF tool = "get_workload_yaml"
    THEN OwnApiCall(k, api, kind \in {"Pod", "Deployment", "StatefulSet"}, "Tool Error: ...")
    ELSE IF tool = "get_pod_top_metrics"
    THEN OwnApiCall(k, api, TRUE, "Metrics API unavailable or error")
    ELSE CoreV1Call(k, api, "report", "Tool Error: ...")

Call(tool, kind) ==
    /\ LET r == Collector(tool, kind, kube, v1_api)
       IN /\ observation' = [tool |-> tool, result |-> r.result]
          /\ v1_api' = r.api
    /\ UNCHANGED kube
    /\ UNCHANGED <<sessionVars, streamVars, issueVars>>

(* between calls the cluster, the files and the network change *)
Change(flag) ==
    /\ flag # "client"
    /\ kube' = [kube EXCEPT ![flag] = ~@]
    /\ UNCHANGED <<v1_api, observation>>
    /\ UNCHANGED <<sessionVars, streamVars, issueVars>>

InitTools ==
    /\ NoSession
    /\ NoStream
    /\ NoIssue
    /\ kube \in Envs
    /\ v1_api = None
    /\ observation = NotCalled

NextTools ==
    \/ \E tool \in Collectors, kind \in WorkloadKinds : Call(tool, kind)
    \/ \E flag \in {"incluster", "kubeconfig", "construct", "query"} : Change(flag)

(* SpecTools: calls of the collectors of create_tools, one after another *)
SpecTools == InitTools /\ [][NextTools]_vars

(* ================================================================ claims *)
(* connection c takes the step *)
Stepped(c) == pc'[c] # pc[c]

InLoop == {"loop", "flushed", "ask_handoff", "ask_approval", "solution"}

Intervene(d) == [frame |-> "json", type |-> "intervene", decision |-> d]

(* the frame is an intervene message whose decision is one of ds *)
Decides(m, ds) == m.frame = "json" /\ m.type = "intervene" /\ m.decision \in ds

Entry(c) == ISSUE_THREAD_MAP[issue_id[c]]

(* C1: the Handoff Stage is entered only by the reply approve to a         *)
(* handoff_approval request sent for a Decision whose next_action is       *)
(* handoff_to_solution_agent, and a solution thread is recorded and a      *)
(* handoff event sent only by the Handoff Stage.                           *)
C1_HandoffOnlyAfterApprovedGate ==
    [][\A c \in Conns :
        /\ (pc'[c] = "solution" /\ pc[c] # "solution") =>
              /\ pc[c] = "ask_handoff"
              /\ state[c] = "handoff_to_solution_agent"
              /\ out[c] = <<Ev("handoff_approval", "", diag_thread[c], None)>>
              /\ HandoffReply(c, Intervene("approve"))
        /\ (Stepped(c) /\ (pc'[c] = "end_handoff" \/ "handoff" \in Kinds(out'[c]))) =>
              pc[c] = "solution"
        /\ \A k \in Keys :
              ISSUE_THREAD_MAP'[k].sol_thread_id # ISSUE_THREAD_MAP[k].sol_thread_id =>
                  \E b \in Conns : pc[b] = "solution" /\ pc'[b] = "end_handoff"
                                   /\ issue_id[b] = k
      ]_vars

C1_Witness ==
    \E c \in Conns : /\ pc[c] = "end_handoff"
                     /\ "handoff" \in Kinds(out[c])
                     /\ Entry(c).sol_thread_id # None

(* the effects the reply deny to a handoff_approval request must not have  *)
DenyKeepsDiagnosing(c) ==
    /\ pc'[c] = "loop"
    /\ current_input'[c] = handoff_denied_input
    /\ out'[c] = <<>>
    /\ ISSUE_THREAD_MAP' = ISSUE_THREAD_MAP
    /\ threads' = threads
    /\ next_thread' = next_thread

(* C2 as stated: after deny at a handoff_approval request the session's     *)
(* next step is another engine turn with the denial prompt, and no thread  *)
(* is created, nothing recorded and no event sent.                          *)
C2_DenyReturnsToStreaming ==
    [][\A c \in Conns :
        (pc[c] = "ask_handoff" /\ HandoffReply(c, Intervene("deny"))) =>
            /\ DenyKeepsDiagnosing(c)
            /\ MayStep(step_count'[c])
      ]_vars

(* C2 amended: after deny at a handoff_approval request the session is at   *)
(* the head of the turn loop with the denial prompt as input, no thread is *)
(* created, nothing recorded and no event sent; from there its next step   *)
(* is an engine turn, or the end of the loop when step_count has reached    *)
(* max_steps, never the Handoff Stage.                                      *)
C2_DenyReturnsToLoop ==
    [][\A c \in Conns :
        /\ (pc[c] = "ask_handoff" /\ HandoffReply(c, Intervene("deny"))) =>
              DenyKeepsDiagnosing(c)
        /\ (pc[c] = "loop" /\ current_input[c] = handoff_denied_input /\ Stepped(c)) =>
              /\ pc'[c] \in {"flushed", "end_exception", "end_loop"}
              /\ pc'[c] = "end_loop" <=> ~MayStep(step_count[c])
              /\ \A k \in Keys : ISSUE_THREAD_MAP'[k].sol_thread_id
                                    = ISSUE_THREAD_MAP[k].sol_thread_id
      ]_vars

C2_Witness ==
    \E c \in Conns : /\ pc[c] = "loop"
                     /\ current_input[c] = handoff_denied_input
                     /\ MayStep(step_count[c])
                     /\ Entry(c).sol_thread_id = None

(* C3: at a handoff_approval request a frame that arrives and is not an    *)
(* intervene message deciding approve or deny ends the session with error  *)
(* events only, and leaves registry and thread store as they were, the      *)
(* entry of the key without a solution thread.                              *)
C3_BadHandoffReplyIsError ==
    [][\A c \in Conns : \A m \in Inbound :
        (/\ pc[c] = "ask_handoff"
         /\ HandoffReply(c, m)
         /\ m.frame # "disconnect"
         /\ ~Decides(m, {"approve", "deny"})) =>
            /\ pc'[c] = "end_error"
            /\ Kinds(out'[c]) = {"error"}
            /\ ISSUE_THREAD_MAP' = ISSUE_THREAD_MAP
            /\ ISSUE_THREAD_MAP'[issue_id[c]].sol_thread_id = None
            /\ threads' = threads
            /\ next_thread' = next_thread
      ]_vars

C3_Witness ==
    \E c \in Conns : /\ pc[c] = "end_error"
                     /\ state[c] = "handoff_to_solution_agent"
                     /\ Kinds(out[c]) = {"error"}
                     /\ Entry(c).sol_thread_id = None

(* C4: a connection never makes more than max_steps engine submissions.    *)
C4_StepsBounded ==
    \A c \in Conns : step_count[c] <= max_steps

C4_Witness ==
    \E c \in Conns : pc[c] = "ask_handoff" /\ step_count[c] = max_steps

(* C5: the controller starts no engine turn on a thread whose history       *)
(* listing already holds max_history messages.                              *)
C5_NoTurnOnFullHistory ==
    [][\A c \in Conns :
        (pc[c] = "loop" /\ pc'[c] = "flushed") =>
            ~HistoryFull(HistoryLen(diag_thread[c]))
      ]_vars

(* C6: a session that ends because step_count reached max_steps or the     *)
(* history reached max_history has sent complete with status in_progress,   *)
(* and nothing else, as its last events.                                    *)
C6_BoundEndsInProgress ==
    \A c \in Conns :
        pc[c] \in {"end_loop", "end_history"} =>
            out[c] = <<Ev("complete", "in_progress", diag_thread[c], None)>>

(* the session of c was resumed and is in its turn loop *)
Resumed(c) == pc[c] \in InLoop /\ existing_diag_id[c] # None

C8_ResumeNoChangesNothing ==
    [][\A c \in Conns :
        (/\ pc[c] = "ask_resume"
         /\ Resume(c, [frame |-> "json", type |-> "resume", decision |-> "no"])) =>
            /\ pc'[c] = "end_declined"
            /\ existing_diag_id[c] # None
            /\ out'[c] = <<Ev("complete", "in_progress", existing_diag_id[c], None)>>
            /\ diag_thread'[c] = None
            /\ ISSUE_THREAD_MAP' = ISSUE_THREAD_MAP
            /\ threads' = threads
            /\ next_thread' = next_thread
      ]_vars

C8_Witness ==
    \E c \in Conns : /\ pc[c] = "end_declined"
                     /\ Kinds(out[c]) = {"complete"}
                     /\ Entry(c).sol_thread_id = None
                     /\ Entry(c).diag_thread_id = existing_diag_id[c]

(* C9: whenever the registry entry of a key holds a solution thread, a      *)
(* start for that key is a replay.                                          *)
C9_StartOnSolvedKeyReplays ==
    \A k \in Keys :
        ISSUE_THREAD_MAP[k].sol_thread_id # None =>
            StartBranch(ISSUE_THREAD_MAP[k]) = "end_replay"

(* C10: once the registry entry of a key holds a solution thread, the       *)
(* entry never changes.                                                     *)
C10_SolvedEntryImmutable ==
    [][\A k \in Keys :
        ISSUE_THREAD_MAP[k].sol_thread_id # None =>
            ISSUE_THREAD_MAP'[k] = ISSUE_THREAD_MAP[k]
      ]_vars

(* the sessions of a and b run at the same time on the same key, and both  *)
(* found no diagnostic thread recorded for it                               *)
BothNewOnKey(a, b) ==
    /\ a # b
    /\ pc[a] \in InLoop
    /\ pc[b] \in InLoop
    /\ issue_id[a] = issue_id[b]
    /\ existing_diag_id[a] = None
    /\ existing_diag_id[b] = None

(* C11: two connections that run at the same time on the same key never     *)
(* both create a diagnostic thread, and the diag_thread_id recorded for a   *)
(* key is never replaced by another thread reference.                       *)
C11_KeySerialized ==
    /\ [](\A a, b \in Conns :
            BothNewOnKey(a, b) =>
                ~(/\ diag_thread[a] # None
                  /\ diag_thread[b] # None
                  /\ diag_thread[a] # diag_thread[b]))
    /\ [][\A k \in Keys :
            (/\ ISSUE_THREAD_MAP[k].diag_thread_id # None
             /\ ISSUE_THREAD_MAP'[k].diag_thread_id # None) =>
                ISSUE_THREAD_MAP'[k].diag_thread_id = ISSUE_THREAD_MAP[k].diag_thread_id
         ]_vars

(* ---------------------------------------------------- claims on the stream *)
(* what the text holds at the brace s[j] *)
DecodesAt(s, j) == s[j] = "{" /\ raw_decode(From(s, j)).ok

SpanEnd(s, j) == j + raw_decode(From(s, j)).end - 1

DecisionAt(s, j) == DecodesAt(s, j) /\ IsAgentState(raw_decode(From(s, j)).members)

(* s[j] lies in an object that begins before it *)
Inside(s, j) == \E i \in 1..(j - 1) : DecodesAt(s, i) /\ j <= SpanEnd(s, i)

(* the Decision objects of the text: the valid ones among its objects that  *)
(* lie in no other object                                                   *)
DecisionsOf(s) == {j \in 1..Len(s) : DecisionAt(s, j) /\ ~Inside(s, j)}

(* text that begins with a brace and is no JSON, however the text goes on *)
MalformedAt(s, i) == s[i] = "{" /\ ~DecodesAt(s, i) /\ ~Inside(s, i)

(* the text is one Decision and nothing else *)
IsDecisionText(s) == 1 \in DecisionsOf(s) /\ SpanEnd(s, 1) = Len(s)

(* the events of the stream received as one update *)
OneChunk(s) == Scan(s, Len(s), <<>>).events

Ended_Stream == fed = Len(stream)

(* C12: a stream that is one schema-valid Decision, cut into updates in any *)
(* way, gives exactly one diagnostic event, sent when the last character    *)
(* has been received, and it is the event of the stream received as one     *)
(* update.                                                                  *)
C12_SplitsEmitOnce ==
    IsDecisionText(stream) =>
        /\ Len(OneChunk(stream)) = 1
        /\ emitted = IF Ended_Stream THEN OneChunk(stream) ELSE <<>>

C12_Witness ==
    /\ IsDecisionText(stream)
    /\ Ended_Stream
    /\ Len(emitted) = 1
    /\ emitted[1].state.action_input = "dict"
    /\ emitted[1].from = 1
    /\ emitted[1].to = Len(stream)
    /\ buffer = <<>>

(* C13: when the whole stream has been received, every Decision of it that  *)
(* comes after text that begins with a brace and is no JSON has been        *)
(* emitted.                                                                 *)
C13_MalformedDoesNotBlock ==
    Ended_Stream =>
        \A j \in DecisionsOf(stream) :
            (\E i \in 1..(j - 1) : MalformedAt(stream, i)) =>
                \E e \in DOMAIN emitted : emitted[e].from = j

(* C14: the events are Decisions of the stream, each on its own range and   *)
(* in the order of the stream, and when the whole stream has been received  *)
(* every Decision of it has exactly one event.                              *)
C14_EachDecisionOnce ==
    /\ \A e \in DOMAIN emitted :
          /\ DecisionAt(stream, emitted[e].from)
          /\ emitted[e].to = SpanEnd(stream, emitted[e].from)
          /\ emitted[e].to <= fed
    /\ \A e, f \in DOMAIN emitted : e < f => emitted[e].to < emitted[f].from
    /\ Ended_Stream =>
          \A j \in DecisionsOf(stream) :
              Cardinality({e \in DOMAIN emitted : emitted[e].from = j}) = 1

(* the members make a Decision whose action arguments are given in one of   *)
(* the three shapes: an object, a list, a string                            *)
IsDecisionWithArguments(members) ==
    /\ Get(members, "t").kind = "str"
    /\ Optional(Get(members, "a"), "str")
    /\ Get(members, "i").kind \in {"dict", "list", "str"}
    /\ Get(members, "n").kind = "str"
    /\ Get(members, "n").text \in {<<"c">>, <<"w">>, <<"h">>}
    /\ Optional(Get(members, "r"), "str")

(* the text is one object and nothing else, and the object has arguments *)
IsArgumentsText(s) ==
    /\ s # <<>>
    /\ DecodesAt(s, 1)
    /\ SpanEnd(s, 1) = Len(s)
    /\ IsDecisionWithArguments(raw_decode(s).members)

Parsed_Stream == parsed # NotParsed

(* C19: a Decision whose action arguments are an object, a list or a string *)
(* is accepted: when its stream has ended it has its diagnostic event, and  *)
(* the state the turn loop parses from it is a Decision.                    *)
C19_ArgumentShapesAccepted ==
    IsArgumentsText(stream) =>
        /\ Ended_Stream => Len(emitted) = 1
        /\ Parsed_Stream => parsed # StateNone

(* a Decision's root cause and action agree with its next_action *)
DecisionInvariant(st) ==
    /\ st.root_cause # NoText <=> st.next_action = "handoff_to_solution_agent"
    /\ st.action # NoText => st.next_action = "continue"

(* C20: the state the turn loop has parsed, when it is a Decision, has a    *)
(* root cause exactly when its next_action is handoff and an action only    *)
(* when its next_action is continue; a handoff_approval request is for a    *)
(* Decision with a root cause.                                              *)
C20_DecisionFieldsAgree ==
    (Parsed_Stream /\ parsed # StateNone) =>
        /\ DecisionInvariant(parsed)
        /\ Request(parsed) = "handoff_approval" => parsed.root_cause # NoText

(* ---------------------------------------------------- claims on the issue *)
(* a canonical field: the value, or the placeholder where there is none *)
Folded(v) == IF v = NoText THEN Placeholder ELSE StrLower(StrStrip(v))

(* the canonical fields of two issues are equal up to letter case and       *)
(* surrounding whitespace                                                   *)
SameCanonical(p, q) ==
    /\ Folded(p.issueType) = Folded(q.issueType)
    /\ Folded(p.resourceType) = Folded(q.resourceType)
    /\ Folded(p.namespace) = Folded(q.namespace)
    /\ Folded(p.resourceName) = Folded(q.resourceName)
    /\ Folded(p.container) = Folded(q.container)

Constructed == issue # NotConstructed

(* C15: an Issue has the computed identity key of every Issue whose         *)
(* canonical fields equal its own up to letter case and surrounding         *)
(* whitespace, whatever the order of the members and the other fields.      *)
C15_KeyOfCanonicalFields ==
    Constructed =>
        \A q \in Payloads :
            SameCanonical(issue, Fields(q)) =>
                compute_issue_id(HealthIssue(q)) = compute_issue_id(issue)

(* C16: the key of the registry lookup is the identity computed from the    *)
(* issue's canonical fields, whether or not the payload has an issueId.     *)
C16_LookupByComputedKey ==
    lookup # NoText => lookup = compute_issue_id(issue)

(* ------------------------------------------------ claims on the turn loop *)
(* C17: when the last text of a turn is a Decision with next_action         *)
(* continue whose action names no known tool, and the history is not full,  *)
(* the turn loop sends nothing, takes "Continue." as its next input and     *)
(* goes back to its head; its next step is another engine turn, unless the  *)
(* turn was the max_steps-th.  (A thread store that fails to list the       *)
(* history ends the session whatever the Decision was.)                     *)
C17_UnknownActionContinues ==
    [][\A c \in Conns :
          /\ (/\ pc[c] = "flushed"
              /\ Stepped(c)
              /\ pc'[c] # "end_exception"
              /\ LastText(diag_thread[c]) = unknown_action
              /\ ~HistoryFull(HistoryLen(diag_thread[c]))) =>
                 /\ pc'[c] = "loop"
                 /\ current_input'[c] = continue_input
                 /\ out'[c] = <<>>
                 /\ step_count'[c] = step_count[c]
                 /\ ISSUE_THREAD_MAP' = ISSUE_THREAD_MAP
          /\ (/\ pc[c] = "loop"
              /\ Stepped(c)
              /\ current_input[c] = continue_input
              /\ LastText(diag_thread[c]) = unknown_action) =>
                 /\ pc'[c] \in {"flushed", "end_exception", "end_loop"}
                 /\ pc'[c] = "end_loop" <=> ~MayStep(step_count[c])]_vars

C17_Witness ==
    \E c \in Conns : /\ pc[c] = "loop"
                     /\ current_input[c] = continue_input
                     /\ MayStep(step_count[c])
                     /\ diag_thread[c] # None
                     /\ LastText(diag_thread[c]) = unknown_action

(* ----------------------------------------------- claims on the collectors *)
DescribesError == {"Tool Error: kubernetes client not installed", "Tool Error: ...",
                   "Metrics API unavailable or error"}

(* C18: no collector call raises, and a call in which the configuration     *)
(* loading, the client construction or the query failed has returned text   *)
(* that describes the error.                                                *)
C18_CollectorsNeverRaise ==
    /\ observation.result.text # Raised
    /\ observation.result.failure \in {"not_installed", "config", "construct", "query"} =>
          observation.result.text \in DescribesError

(* C21: the turns of a session come one after another.  An engine call is   *)
(* made only at the head of the turn loop; the head is reached from the     *)
(* start, from the resume question, from a turn whose stream has ended and  *)
(* whose Decision opened no gate, or from a gate by the reply to its        *)
(* request; a gate is reached only from the end of a stream, with its       *)
(* request sent.                                                            *)
C21_TurnsSequential ==
    [][\A c \in Conns : Stepped(c) =>
          /\ step_count'[c] > step_count[c] =>
                /\ pc[c] = "loop"
                /\ pc'[c] = "flushed"
                /\ step_count'[c] = step_count[c] + 1
          /\ pc'[c] = "flushed" => pc[c] = "loop"
          /\ pc'[c] = "loop" =>
                \/ pc[c] \in {"accept", "ask_resume"} /\ step_count[c] = 0
                \/ pc[c] = "flushed" /\ out'[c] = <<>>
                \/ pc[c] \in {"ask_handoff", "ask_approval"}
          /\ pc'[c] \in {"ask_handoff", "ask_approval"} =>
                /\ pc[c] = "flushed"
                /\ Len(out'[c]) = 1
                /\ out'[c][1].event \in {"handoff_approval", "awaiting_approval"}
          /\ pc[c] = "flushed" =>
                /\ step_count'[c] \in {step_count[c], 0}
                /\ threads' = threads]_vars

C21_Witness ==
    \E c \in Conns : /\ pc[c] = "flushed"
                     /\ step_count[c] = 3
                     /\ state[c] = Dead
                     /\ LastText(diag_thread[c]) = "await_user_approval"

Gates == {"ask_handoff", "ask_approval"}

GateInputs == [ask_handoff |-> {handoff_denied_input},
               ask_approval |-> {approved_input, denied_input, manual_handoff_input}]

(* C22: a session that has sent a handoff_approval or awaiting_approval     *)
(* request does nothing until one inbound frame has arrived: its only step  *)
(* is the one that takes the frame.  That step makes no engine call and     *)
(* changes neither thread nor registry; it leaves the gate for the loop     *)
(* head with the input of the decision, for the solution stage, or for the  *)
(* end with error events only, and it opens no other gate.                  *)
C22_GateSuspends ==
    [][\A c \in Conns : (pc[c] \in Gates /\ sessionVars' # sessionVars) =>
          /\ Stepped(c)
          /\ pc'[c] \in {"loop", "solution", "end_error"}
          /\ pc'[c] = "loop" =>
                /\ current_input'[c] \in GateInputs[pc[c]]
                /\ out'[c] = <<>>
          /\ pc'[c] = "solution" => pc[c] = "ask_handoff" /\ out'[c] = <<>>
          /\ pc'[c] = "end_error" => Kinds(out'[c]) \subseteq {"error"}
          /\ step_count'[c] \in {step_count[c], 0}
          /\ threads' = threads
          /\ next_thread' = next_thread
          /\ ISSUE_THREAD_MAP' = ISSUE_THREAD_MAP]_vars

C22_Witness ==
    \E c \in Conns : /\ pc[c] = "loop"
                     /\ current_input[c] = manual_handoff_input
                     /\ out[c] = <<>>
                     /\ step_count[c] > 0

(* C23: a session whose transport has gone away during a turn starts no     *)
(* further turn: when the turn's stream has ended, the handler's next step  *)
(* is its end.                                                              *)
C23_DisconnectAborts ==
    [][\A c \in Conns :
          (pc[c] = "flushed" /\ ~connected[c] /\ Stepped(c)) => pc'[c] \in Ended]_vars

(* a later start for the key of c would be asked to resume thread t *)
OffersResume(map, c, t) ==
    /\ t # None
    /\ map[issue_id[c]] = [diag_thread_id |-> t, sol_thread_id |-> None]
    /\ StartBranch(map[issue_id[c]]) = "ask_resume"

(* C24: when the transport disconnects at a gate (the handler ends and      *)
(* nothing reaches the operator), the registry entry of the key holds the   *)
(* session's diagnostic thread and no solution thread; and a start for a    *)
(* key with such an entry is sent resume_available for that thread.         *)
C24_DisconnectAtGateResumable ==
    [][\A c \in Conns :
          /\ (pc[c] \in Gates /\ Stepped(c) /\ pc'[c] \in Ended /\ out'[c] = <<>>) =>
                OffersResume(ISSUE_THREAD_MAP', c, diag_thread[c])
          /\ (/\ pc[c] = "accept"
              /\ Stepped(c)
              /\ issue_id'[c] # None
              /\ ISSUE_THREAD_MAP[issue_id'[c]].diag_thread_id # None
              /\ ISSUE_THREAD_MAP[issue_id'[c]].sol_thread_id = None) =>
                /\ pc'[c] = "ask_resume"
                /\ existing_diag_id'[c] = ISSUE_THREAD_MAP[issue_id'[c]].diag_thread_id
                /\ out'[c][Len(out'[c])] =
                       Ev("resume_available", "", existing_diag_id'[c], None)]_vars

C24_Witness ==
    \E c \in Conns : /\ pc[c] = "end_error"
                     /\ out[c] = <<>>
                     /\ state[c] \in NextActions
                     /\ OffersResume(ISSUE_THREAD_MAP, c, diag_thread[c])

(* C25: after a protocol violation at a gate (the handler ends with error   *)
(* events sent) a later start for the key is not asked to resume: it        *)
(* begins on a new diagnostic thread.                                       *)
C25_ViolationDiscardsSession ==
    [][\A c \in Conns :
          (/\ pc[c] \in Gates
           /\ Stepped(c)
           /\ pc'[c] = "end_error"
           /\ "error" \in Kinds(out'[c])) =>
              StartBranch(ISSUE_THREAD_MAP'[issue_id[c]]) = "loop"]_vars

(* C26: when the engine call of a turn or the listing of the history fails, *)
(* the handler ends, with an error event if the transport is open; the      *)
(* registry entry of the key holds the session's diagnostic thread and no   *)
(* solution thread, so that a later start is asked to resume it; the only   *)
(* step after the end is the next connection.                               *)
C26_UpstreamErrorKeepsThread ==
    [][\A c \in Conns :
          /\ (pc[c] \in {"loop", "flushed"} /\ pc'[c] = "end_exception") =>
                /\ connected[c] => Kinds(out'[c]) = {"error"}
                /\ step_count'[c] = 0
                /\ threads' = threads
                /\ ISSUE_THREAD_MAP'[issue_id[c]] =
                       [diag_thread_id |-> diag_thread'[c], sol_thread_id |-> None]
                /\ diag_thread'[c] # None =>
                       OffersResume(ISSUE_THREAD_MAP', c, diag_thread'[c])
          /\ (pc[c] = "end_exception" /\ Stepped(c)) => pc'[c] = "accept"]_vars

C26_Witness ==
    \E c \in Conns : /\ pc[c] = "end_exception"
                     /\ Kinds(out[c]) = {"error"}
                     /\ existing_diag_id[c] = None
                     /\ OffersResume(ISSUE_THREAD_MAP, c, diag_thread[c])

(* C27: when the solution engine has answered, whatever its text parses     *)
(* to, the registry entry gets the solution thread, handoff, history and    *)
(* complete with status handoff are sent, the handoff without a state when  *)
(* the text does not parse, and no error is sent.                           *)
C27_UnparsedSolutionStillHandsOff ==
    [][\A c \in Conns :
          (pc[c] = "solution" /\ Stepped(c) /\ pc'[c] # "end_exception") =>
              /\ pc'[c] = "end_handoff"
              /\ ISSUE_THREAD_MAP'[issue_id[c]] =
                     [diag_thread_id |-> diag_thread[c], sol_thread_id |-> next_thread]
              /\ "error" \notin Kinds(out'[c])
              /\ connected[c] =>
                    /\ Len(out'[c]) = 3
                    /\ out'[c][1].event = "handoff"
                    /\ out'[c][1].sol_thread_id = next_thread
                    /\ out'[c][1].state \in {"None", "SolutionResponse"}
                    /\ out'[c][2].event = "history"
                    /\ out'[c][3] = Ev("complete", "handoff", diag_thread[c], next_thread)]_vars

C27_Witness ==
    \E c \in Conns : /\ pc[c] = "end_handoff"
                     /\ out[c][1].event = "handoff"
                     /\ out[c][1].state = "None"
                     /\ out[c][3].status = "handoff"
                     /\ Entry(c).sol_thread_id = out[c][1].sol_thread_id
                     /\ Entry(c).sol_thread_id # None

NoDecisionAt(s, j) == DecodesAt(s, j) /\ ~IsAgentState(raw_decode(From(s, j)).members)

(* C28: no diagnostic event is made of text that lies within the span of a  *)
(* decodable object that is no Decision.                                    *)
C28_NothingEmittedOfInvalidSpan ==
    \A e \in DOMAIN emitted :
        \A j \in 1..Len(stream) :
            NoDecisionAt(stream, j) =>
                ~(j <= emitted[e].from /\ emitted[e].to <= SpanEnd(stream, j))

(* C29: after the turn, if events were emitted the state the turn loop      *)
(* parses is the state of the last event, and it parses none only if no     *)
(* event was emitted.                                                       *)
C29_LastEmittedGoverns ==
    (Ended_Stream /\ Parsed_Stream) =>
        /\ emitted # <<>> => parsed = emitted[Len(emitted)].state
        /\ parsed = StateNone => emitted = <<>>

(* ------------------------------------------------ claims on the gates (2) *)
ApprovalInputs == [approve |-> approved_input, deny |-> denied_input,
                   handoff |-> manual_handoff_input]

(* what each of approve, deny, handoff does at an awaiting_approval request *)
ApprovalKeepsDiagnosing(c, d) ==
    /\ pc'[c] = "loop"
    /\ current_input'[c] = ApprovalInputs[d]
    /\ out'[c] = <<>>
    /\ step_count'[c] = step_count[c]
    /\ ISSUE_THREAD_MAP' = ISSUE_THREAD_MAP
    /\ threads' = threads
    /\ next_thread' = next_thread

(* C31 as stated: after approve, deny or handoff at an awaiting_approval    *)
(* request the session's next step is another engine turn with the          *)
(* decision's prompt; nothing is sent and the registry is unchanged.         *)
C31_DecisionsReturnToStreaming ==
    [][\A c \in Conns : \A d \in DOMAIN ApprovalInputs :
        (pc[c] = "ask_approval" /\ ApprovalReply(c, Intervene(d))) =>
            /\ ApprovalKeepsDiagnosing(c, d)
            /\ MayStep(step_count'[c])
      ]_vars

(* C31 amended: after approve, deny or handoff at an awaiting_approval      *)
(* request the session is at the head of the turn loop with the decision's  *)
(* prompt, nothing sent and the registry unchanged; from there its next     *)
(* step is an engine turn, or the end of the loop when step_count has       *)
(* reached max_steps, and never the Handoff Stage or a gate.                *)
C31_DecisionsReturnToLoop ==
    [][\A c \in Conns :
        /\ \A d \in DOMAIN ApprovalInputs :
              (pc[c] = "ask_approval" /\ ApprovalReply(c, Intervene(d))) =>
                  ApprovalKeepsDiagnosing(c, d)
        /\ (/\ pc[c] = "loop"
            /\ current_input[c] \in {ApprovalInputs[d] : d \in DOMAIN ApprovalInputs}
            /\ Stepped(c)) =>
              /\ pc'[c] \in {"flushed", "end_exception", "end_loop"}
              /\ pc'[c] = "end_loop" <=> ~MayStep(step_count[c])
              /\ pc'[c] = "end_loop" => out'[c] = <<>>
              /\ \A k \in Keys : ISSUE_THREAD_MAP'[k].sol_thread_id
                                    = ISSUE_THREAD_MAP[k].sol_thread_id
      ]_vars

C31_Witness ==
    \E c \in Conns : /\ pc[c] = "loop"
                     /\ current_input[c] = denied_input
                     /\ step_count[c] = 2
                     /\ out[c] = <<>>
                     /\ Entry(c) = [diag_thread_id |-> diag_thread[c], sol_thread_id |-> None]

(* the frame arrived and is no message of the given type *)
Unexpected(m, type) ==
    \/ m.frame = "malformed"
    \/ m.frame = "json" /\ m.type # type

(* the reply step of connection c on the frame m *)
Reply(c, m) ==
    \/ pc[c] = "ask_resume" /\ Resume(c, m) /\ Unexpected(m, "resume")
    \/ pc[c] = "ask_handoff" /\ HandoffReply(c, m) /\ Unexpected(m, "intervene")
    \/ pc[c] = "ask_approval" /\ ApprovalReply(c, m) /\ Unexpected(m, "intervene")

(* C32: at the resume prompt and at both gates a frame that arrives and is  *)
(* not a message of the expected type ends the session with an error event  *)
(* and without a complete event.                                            *)
C32_UnexpectedMessageIsError ==
    [][\A c \in Conns : \A m \in Inbound :
        Reply(c, m) =>
            /\ pc'[c] \in Ended
            /\ "error" \in Kinds(out'[c])
            /\ "complete" \notin Kinds(out'[c])
      ]_vars

(* ---------------------------------------------- claims on the Handoff Stage *)
(* the thread reference s is in use before the step *)
InUse(s) ==
    \/ \E k \in Keys : s \in {ISSUE_THREAD_MAP[k].diag_thread_id,
                              ISSUE_THREAD_MAP[k].sol_thread_id}
    \/ \E b \in Conns : diag_thread[b] = s
    \/ threads[s].n > 0

(* C33: the Handoff Stage is entered from the handoff_approval gate only;   *)
(* its step ends the handler, with or without the engine's answer and with  *)
(* or without a transport, runs no diagnostic turn and sends no request;    *)
(* when the engine answers, the solution thread is a new reference, not the *)
(* diagnostic thread's; an ended handler only gives way to the next         *)
(* connection.                                                              *)
C33_HandoffStageOnce ==
    [][\A c \in Conns :
        /\ (pc'[c] = "solution" /\ Stepped(c)) => pc[c] = "ask_handoff"
        /\ (pc[c] = "solution" /\ Stepped(c)) =>
              /\ pc'[c] \in {"end_handoff", "end_exception"}
              /\ threads' = threads
              /\ step_count'[c] = 0
              /\ Kinds(out'[c]) \cap {"diagnostic", "awaiting_approval",
                                      "handoff_approval", "resume_available"} = {}
        /\ (pc[c] = "solution" /\ pc'[c] = "end_handoff") =>
              LET s == ISSUE_THREAD_MAP'[issue_id[c]].sol_thread_id
              IN /\ s \in ThreadIds
                 /\ s # diag_thread[c]
                 /\ ~InUse(s)
                 /\ next_thread' > s
        /\ (pc[c] \in Ended /\ Stepped(c)) => pc'[c] = "accept"
      ]_vars

C33_Witness ==
    \E c \in Conns : /\ pc[c] = "end_handoff"
                     /\ ~connected[c]
                     /\ out[c] = <<>>
                     /\ Entry(c).diag_thread_id = diag_thread[c]
                     /\ Entry(c).sol_thread_id \notin {None, diag_thread[c]}

(* ------------------------------------------------- claims on the start *)
(* C34: a first message that is answered with an error ends the handler     *)
(* with that one event; the registry, the thread store and the references   *)
(* the handler holds are as before, and no engine turn follows.             *)
C34_BadStartHasNoEffect ==
    [][\A c \in Conns :
        (pc[c] = "accept" /\ Stepped(c) /\ "error" \in Kinds(out'[c])) =>
            /\ pc'[c] = "end_badstart"
            /\ out'[c] = <<Ev("error", "", None, None)>>
            /\ ISSUE_THREAD_MAP' = ISSUE_THREAD_MAP
            /\ threads' = threads
            /\ next_thread' = next_thread
            /\ issue_id'[c] = None
            /\ existing_diag_id'[c] = None
            /\ diag_thread'[c] = None
            /\ step_count'[c] = 0
      ]_vars

C34_Witness ==
    \E c \in Conns : /\ pc[c] = "end_badstart"
                     /\ Kinds(out[c]) = {"error"}
                     /\ issue_id[c] = None
                     /\ \E k \in Keys : ISSUE_THREAD_MAP[k].diag_thread_id # None

(* ----------------------------------------- claims on sessions of two keys *)
(* the key of connection c in the step *)
KeyOf(c) == IF issue_id[c] # None THEN issue_id[c] ELSE issue_id'[c]

(* connection c is where its handler goes on without the operator, and the *)
(* step the code takes there can be taken                                   *)
Proceeds(c) ==
    /\ (pc[c] = "loop" /\ MayStep(step_count[c])) =>
            ENABLED (\E txt \in Texts : FlushDiagStream(c, 1, txt, 1))
    /\ (pc[c] = "loop" /\ ~MayStep(step_count[c])) => ENABLED LoopExit(c)
    /\ pc[c] = "flushed" => ENABLED Decide(c)
    /\ pc[c] = "solution" => ENABLED (\E text \in SolutionTexts : RunSolutionAndEmit(c, text))
    /\ pc[c] = "ask_resume" => ENABLED (\E m \in Inbound : Resume(c, m))
    /\ pc[c] = "ask_handoff" => ENABLED (\E m \in Inbound : HandoffReply(c, m))
    /\ pc[c] = "ask_approval" => ENABLED (\E m \in Inbound : ApprovalReply(c, m))

(* C35: a step of a connection changes no registry entry but that of the    *)
(* connection's key, and a connection past its start can always take its    *)
(* next step, wherever the other connections are.                           *)
C35_KeysDoNotInterfere ==
    /\ [][\A c \in Conns : Stepped(c) =>
            \A k \in Keys \ {KeyOf(c)} : ISSUE_THREAD_MAP'[k] = ISSUE_THREAD_MAP[k]]_vars
    /\ [](\A c \in Conns : Proceeds(c))

C35_Witness ==
    \E a, b \in Conns :
        /\ issue_id[a] = 1 /\ issue_id[b] = 2
        /\ pc[a] = "end_handoff" /\ pc[b] = "ask_approval"
        /\ ISSUE_THREAD_MAP[1].sol_thread_id # None
        /\ ISSUE_THREAD_MAP[2] = [diag_thread_id |-> diag_thread[b], sol_thread_id |-> None]

(* ------------------------------------------------ claims on the last event *)
(* the places of the terminal events among the events of a step *)
Terminals(events) == {i \in DOMAIN events : events[i].event \in {"complete", "error"}}

(* C36: the events a step sends hold at most one terminal event, it is the  *)
(* last of them, and the step that sends it ends the handler, after which   *)
(* nothing is sent on the connection.                                       *)
C36_OneTerminalEvent ==
    \A c \in Conns :
        /\ Cardinality(Terminals(out[c])) <= 1
        /\ Terminals(out[c]) \subseteq {Len(out[c])}
        /\ Terminals(out[c]) # {} => pc[c] \in Ended

(* C37: the step of an engine turn, whether the engine call succeeds or     *)
(* fails, changes no solution thread reference of the registry and nothing  *)
(* of the entries of other keys; what it may change is the diagnostic       *)
(* thread reference of its own key.                                         *)
C37_TurnWritesDiagOnly ==
    [][\A c \in Conns : (pc[c] = "loop" /\ Stepped(c)) =>
          \A k \in Keys :
              /\ ISSUE_THREAD_MAP'[k].sol_thread_id = ISSUE_THREAD_MAP[k].sol_thread_id
              /\ k # issue_id[c] => ISSUE_THREAD_MAP'[k] = ISSUE_THREAD_MAP[k]
              /\ ISSUE_THREAD_MAP'[k].diag_thread_id
                     \in {ISSUE_THREAD_MAP[k].diag_thread_id, diag_thread'[c]}]_vars

C37_Witness ==
    \E c \in Conns : /\ pc[c] = "flushed"
                     /\ step_count[c] > 1
                     /\ Entry(c).sol_thread_id # None
                     /\ Entry(c).diag_thread_id = diag_thread[c]

(* ------------------------------------------------ claims on the bounds (2) *)
(* C38: when the thread of the turn holds max_history messages or more and  *)
(* its listing succeeds, the step after the stream ends the handler; on an  *)
(* open transport it sends complete with status in_progress and nothing     *)
(* else, whatever the turn's Decision is: no request, no Handoff Stage, no  *)
(* change of the registry.                                                  *)
C38_HistoryBoundFirst ==
    [][\A c \in Conns :
        (/\ pc[c] = "flushed"
         /\ Stepped(c)
         /\ pc'[c] # "end_exception"
         /\ HistoryLen(diag_thread[c]) >= max_history) =>
            /\ pc'[c] \in {"end_history", "end_disconnect"}
            /\ connected[c] =>
                  out'[c] = <<Ev("complete", "in_progress", diag_thread[c], None)>>
            /\ ~connected[c] => out'[c] = <<>>
            /\ ISSUE_THREAD_MAP' = ISSUE_THREAD_MAP
            /\ next_thread' = next_thread
            /\ threads' = threads
      ]_vars

C38_Witness ==
    \E c \in Conns : /\ pc[c] = "end_history"
                     /\ state[c] = "handoff_to_solution_agent"
                     /\ HistoryLen(diag_thread[c]) >= max_history
                     /\ out[c] = <<Ev("complete", "in_progress", diag_thread[c], None)>>
                     /\ Entry(c).sol_thread_id = None

(* ------------------------------------------------- claims on termination *)
(* C39: a session that has started reaches the end of its handler.          *)
C39_SessionTerminates ==
    \A c \in Conns : (pc[c] \in InLoop \cup {"ask_resume"}) ~> (pc[c] \in Ended)

C39_Witness ==
    \E c \in Conns : /\ pc[c] = "end_disconnect"
                     /\ ~connected[c]
                     /\ step_count[c] = 0
                     /\ diag_thread[c] # None
                     /\ existing_diag_id[c] # None

(* ------------------------------------------------ claims on the issue (2) *)
(* the normalized canonical tuple of an issue: each field, or the           *)
(* placeholder, trimmed and in lower case                                   *)
CanonicalTuple(self) ==
    <<StrLower(StrStrip(Or(self.issueType, Placeholder))),
      StrLower(StrStrip(self.resourceType)),
      StrLower(StrStrip(Or(self.namespace, Placeholder))),
      StrLower(StrStrip(Or(self.resourceName, Placeholder))),
      StrLower(StrStrip(Or(self.container, Placeholder)))>>

(* C40: two issues whose normalized canonical tuples differ have different  *)
(* canonical keys.                                                          *)
C40_CanonicalKeyInjective ==
    Constructed =>
        \A q \in Payloads :
            CanonicalTuple(Fields(q)) # CanonicalTuple(issue) =>
                canonical_key(Fields(q)) # canonical_key(issue)

====
